---- MODULE Spec2Model ----
(***************************************************************************)
(* Model of the RAG mini project: rag.js (chunkText, cosineSimilarity,     *)
(* indexPdfToJson, answerQuestion, the two Ollama clients) and server.js   *)
(* (the /api/index and /api/ask routes).                                   *)
(*                                                                         *)
(* A text is a sequence of one-character strings.  A vector is a sequence  *)
(* of integers.  The index file data/index.json is the variable file.     *)
(***************************************************************************)
EXTENDS Integers, Sequences, FiniteSets, TLC

\* ------------------------------------------------------------------ bounds
\* longest input text handed to chunkText
MaxLen == 5
\* largest chunkSize tried; overlap ranges over 0..MaxChunk, so overlap >=
\* chunkSize is among the inputs
MaxChunk == 2
\* iterations of the chunkText loop the model follows before it stops looking
MaxIter == 9
\* most records in an index handed to the ranking step
MaxItems == 3
\* largest topK tried
MaxK == 3
\* request slots: requests the server handles at the same time
MaxReqs == 2

Min(a, b) == IF a < b THEN a ELSE b
Max(a, b) == IF a > b THEN a ELSE b

\* ------------------------------------------------------------ text helpers
\* the characters texts are made of: a letter and the four kinds of
\* whitespace the cleaning regexps tell apart
Alphabet == {"a", " ", "\t", "\n", "\r"}

\* what String.prototype.trim removes
IsSpace(c) == c \in {" ", "\t", "\n", "\r"}

RECURSIVE TrimStart(_)
TrimStart(s) ==
  IF s = <<>> THEN <<>>
  ELSE IF IsSpace(Head(s)) THEN TrimStart(Tail(s)) ELSE s

RECURSIVE TrimEnd(_)
TrimEnd(s) ==
  IF s = <<>> THEN <<>>
  ELSE IF IsSpace(s[Len(s)]) THEN TrimEnd(SubSeq(s, 1, Len(s) - 1)) ELSE s

\* String.prototype.trim
Trim(s) == TrimEnd(TrimStart(s))

\* .replace(/\r/g, '')
StripCR(s) == SelectSeq(s, LAMBDA c : c # "\r")

\* .replace(/[ \t]+/g, ' ')
RECURSIVE CollapseBlanks(_)
CollapseBlanks(s) ==
  IF s = <<>> THEN <<>>
  ELSE IF Head(s) \in {" ", "\t"}
       THEN IF Len(s) > 1 /\ s[2] \in {" ", "\t"}
            THEN CollapseBlanks(Tail(s))
            ELSE <<" ">> \o CollapseBlanks(Tail(s))
       ELSE <<Head(s)>> \o CollapseBlanks(Tail(s))

\* length of the run of line breaks s starts with
RECURSIVE NewlineRun(_)
NewlineRun(s) ==
  IF s = <<>> \/ Head(s) # "\n" THEN 0 ELSE 1 + NewlineRun(Tail(s))

\* .replace(/\n{3,}/g, '\n\n')
RECURSIVE CollapseNewlines(_)
CollapseNewlines(s) ==
  IF s = <<>> THEN <<>>
  ELSE LET n == NewlineRun(s)
       IN  IF n >= 3 THEN <<"\n", "\n">> \o CollapseNewlines(SubSeq(s, n + 1, Len(s)))
           ELSE IF n > 0 THEN SubSeq(s, 1, n) \o CollapseNewlines(SubSeq(s, n + 1, Len(s)))
           ELSE <<Head(s)>> \o CollapseNewlines(Tail(s))

\* the cleaning chain at the head of chunkText
Clean(s) == Trim(CollapseNewlines(CollapseBlanks(StripCR(s))))

\* cleaned.slice(from, to) with 0-based from, exclusive to
Slice(s, from, to) == SubSeq(s, from + 1, to)

\* all texts of length at most n
TextsUpTo(n) == UNION {[1..k -> Alphabet] : k \in 0..n}

\* ------------------------------------------------- chunkText, step by step
VARIABLES
  text,        \* chunkText's argument
  chunkSize,   \* chunkText's argument
  overlap,     \* chunkText's argument
  cleaned,     \* const cleaned
  i,           \* let i
  chunks,      \* const chunks
  windows,     \* history: the [i, end) pairs sliced so far
  cpc          \* "loop": at the while test; "done": returned

chunkVars == <<text, chunkSize, overlap, cleaned, i, chunks, windows, cpc>>

\* the ranking step of answerQuestion, on its own
VARIABLES
  items,              \* const items = db.items
  questionEmbedding,  \* const questionEmbedding
  topK,               \* answerQuestion's argument
  scored,             \* const scored
  rpc                 \* "rank": before the ranking step; "done": after it

rankVars == <<items, questionEmbedding, topK, scored, rpc>>

\* the server: data/index.json and the requests in flight
VARIABLES
  file,         \* what is stored at INDEX_PATH
  req,          \* per request slot, where its handler stands and its locals
  lastResp,     \* the response sent last (res.json / res.status(...).json)
  everIndexed   \* history: some /api/index request has been answered 200

sysVars == <<file, req, lastResp, everIndexed>>

vars == <<chunkVars, rankVars, sysVars>>

\* concurrent request slots of the server
Reqs == 1..MaxReqs

NoFile == [state |-> "absent"]
Idle == [pc |-> "idle"]
NoResp == [op |-> "none"]

\* the server is not running
SysIdle ==
  /\ file = NoFile /\ req = [p \in Reqs |-> Idle]
  /\ lastResp = NoResp /\ everIndexed = FALSE

\* chunkText is not running
ChunkIdle ==
  /\ text = <<>> /\ chunkSize = 1 /\ overlap = 0 /\ cleaned = <<>>
  /\ i = 0 /\ chunks = <<>> /\ windows = <<>> /\ cpc = "idle"

\* the ranking step is not running
RankIdle ==
  /\ items = <<>> /\ questionEmbedding = <<>> /\ topK = 0
  /\ scored = <<>> /\ rpc = "idle"

\* window end of the iteration that starts at cursor
WindowEnd(cursor, size, len) == Min(cursor + size, len)

\* a cursor update that steps one character too far
NextCursorSkips(end, ov) == Max(0, end - ov) + 1

\* cursor of the next iteration
NextCursor(end, ov) == Max(0, end - ov)

\* a push without the emptiness test
PushChunkAlways(cs, chunk) == Append(cs, chunk)

\* the chunk an iteration adds, if any
PushChunk(cs, chunk) == IF chunk # <<>> THEN Append(cs, chunk) ELSE cs

ChunkInit ==
  /\ text \in TextsUpTo(MaxLen)
  /\ chunkSize \in 1..MaxChunk
  /\ overlap \in 0..MaxChunk
  /\ cleaned = Clean(text)
  /\ i = 0
  /\ chunks = <<>>
  /\ windows = <<>>
  /\ cpc = "loop"
  /\ RankIdle
  /\ SysIdle

\* one pass through the body of the while loop
ChunkIterate ==
  /\ cpc = "loop"
  /\ i < Len(cleaned)
  /\ Len(windows) < MaxIter
  /\ LET end == WindowEnd(i, chunkSize, Len(cleaned))
         chunk == Trim(Slice(cleaned, i, end))
     IN  /\ chunks' = PushChunk(chunks, chunk)
         /\ windows' = Append(windows, <<i, end>>)
         /\ IF end = Len(cleaned)
            THEN cpc' = "done" /\ i' = i
            ELSE cpc' = "loop" /\ i' = NextCursor(end, overlap)
  /\ UNCHANGED <<text, chunkSize, overlap, cleaned, rankVars, sysVars>>

\* the while test fails: return chunks
ChunkReturn ==
  /\ cpc = "loop"
  /\ ~(i < Len(cleaned))
  /\ cpc' = "done"
  /\ UNCHANGED <<text, chunkSize, overlap, cleaned, i, chunks, windows, rankVars, sysVars>>

ChunkNext == ChunkIterate \/ ChunkReturn

SpecChunk == ChunkInit /\ [][ChunkNext]_vars

RECURSIVE ChunkFrom(_, _, _, _)
\* the chunks the loop pushes from cursor cur on (defined for ov < size)
ChunkFrom(cl, size, ov, cur) ==
  IF ~(cur < Len(cl)) THEN <<>>
  ELSE LET end == WindowEnd(cur, size, Len(cl))
           chunk == Trim(Slice(cl, cur, end))
       IN  PushChunk(<<>>, chunk) \o
             (IF end = Len(cl) THEN <<>> ELSE ChunkFrom(cl, size, ov, NextCursor(end, ov)))

\* chunkText(text, chunkSize, overlap) as a value
chunkText(t, size, ov) == ChunkFrom(Clean(t), size, ov, 0)

\* the value and the loop agree
ChunkTextAgrees ==
  (cpc = "done" /\ overlap < chunkSize) => chunks = chunkText(text, chunkSize, overlap)

\* ---------------------------------------------------- claims on chunkText
CeilDiv(a, b) == (a + b - 1) \div b

\* the iteration bound of the progress guarantee
IterBound == CeilDiv(Len(cleaned), Max(1, chunkSize - overlap)) + 1

\* the cursors of successive iterations strictly increase
CursorIncreases ==
  \A k \in 2..Len(windows) : windows[k][1] >= windows[k - 1][1] + 1

\* C1: for every text, chunkSize > 0 and overlap >= 0 (overlap >= chunkSize
\* included) the loop's cursor grows by at least 1 per iteration and the loop
\* runs at most ceil(length / max(1, chunkSize - overlap)) + 1 iterations.
C1_LoopTerminates == CursorIncreases /\ Len(windows) <= IterBound

\* the same statement for overlap < chunkSize only, where the code does progress
C1_TerminatesWhenOverlapSmaller == overlap < chunkSize => C1_LoopTerminates

RECURSIVE Concat(_)
Concat(ss) == IF ss = <<>> THEN <<>> ELSE Head(ss) \o Concat(Tail(ss))

\* ss joined after dropping the first ov characters of every entry but the first
Rejoin(ss, ov) ==
  Concat([k \in 1..Len(ss) |->
            IF k = 1 THEN ss[k] ELSE SubSeq(ss[k], ov + 1, Len(ss[k]))])

\* the slices cleaned.slice(i, end) of the iterations made so far
WindowSlices == [k \in 1..Len(windows) |-> Slice(cleaned, windows[k][1], windows[k][2])]

IsSuffix(s, t) == Len(s) <= Len(t) /\ SubSeq(t, Len(t) - Len(s) + 1, Len(t)) = s

\* a slice that trim() shortens
SliceTrimmed == \E k \in 1..Len(windows) : Trim(WindowSlices[k]) # WindowSlices[k]

Returned == cpc = "done"

\* C8 as stated: for non-empty cleaned text and overlap < chunkSize the
\* emitted chunks, rejoined without their first overlap characters, give the
\* cleaned text back, and the last chunk ends at the end of the text.
C8_ChunksReconstruct ==
  (Returned /\ cleaned # <<>> /\ overlap < chunkSize) =>
     /\ Rejoin(chunks, overlap) = cleaned
     /\ IsSuffix(chunks[Len(chunks)], cleaned)

\* C8 amended: the untrimmed slices reconstruct the cleaned text; the chunks
\* are those slices trimmed, empty ones left out, so the chunks reconstruct it
\* whenever trim() shortened no slice; the last chunk is a suffix of the text.
C8_SlicesReconstruct ==
  (Returned /\ cleaned # <<>> /\ overlap < chunkSize) =>
     /\ Rejoin(WindowSlices, overlap) = cleaned
     /\ chunks = SelectSeq([k \in 1..Len(windows) |-> Trim(WindowSlices[k])],
                           LAMBDA c : c # <<>>)
     /\ (~SliceTrimmed => Rejoin(chunks, overlap) = cleaned)
     /\ IsSuffix(chunks[Len(chunks)], cleaned)

\* a finished run with overlap, several slices, and one that trim() shortened
C8_Witness ==
  /\ Returned /\ 0 < overlap /\ overlap < chunkSize
  /\ Len(windows) >= 3 /\ SliceTrimmed
  /\ Rejoin(chunks, overlap) # cleaned

AllSpace(s) == \A k \in 1..Len(s) : IsSpace(s[k])

\* C9: chunkText returns no chunk exactly when the text is empty or all
\* whitespace (its cleaned form is empty); for any other text it returns at
\* least one chunk; and no chunk it emits is the empty string.
C9_EmptyOnlyForBlankText ==
  /\ \A k \in 1..Len(chunks) : chunks[k] # <<>>
  /\ (cleaned = <<>>) <=> AllSpace(text)
  /\ Returned => ((chunks = <<>>) <=> AllSpace(text))

\* a finished run over text with content in which one slice was all whitespace
\* and was left out
C9_Witness ==
  /\ Returned /\ ~AllSpace(text)
  /\ Len(chunks) >= 2 /\ Len(chunks) < Len(windows)

\* ------------------------------------------ cosineSimilarity and ranking
\* the vectors the embedding service hands out; components are integers, so
\* that scores can be compared exactly
Vecs == {<<>>, <<1>>, <<1, 0>>, <<0, 1>>, <<-1, 1>>}

Undefined == "undefined"


\* JSON.stringify drops a property whose value is undefined
JsonItem(it) ==
  IF it.embedding = Undefined
  THEN [id |-> it.id, source |-> it.source, chunk |-> it.chunk, text |-> it.text]
  ELSE it

\* item.embedding of a record read back
EmbeddingOf(it) == IF "embedding" \in DOMAIN it THEN it.embedding ELSE Undefined

\* a length test that also rejects vectors with no component in common
NoLengthOrNoOverlap(its, q) ==
  \/ q = Undefined
  \/ \E j \in 1..Len(its) : EmbeddingOf(its[j]) = Undefined
  \/ \E j \in 1..Len(its) : Min(Len(q), Len(EmbeddingOf(its[j]))) = 0

\* some operand of cosineSimilarity has no length
NoLength(its, q) ==
  q = Undefined \/ \E j \in 1..Len(its) : EmbeddingOf(its[j]) = Undefined

RECURSIVE SumTo(_, _)
\* sum of f[1..n]: the accumulation of the for loop
SumTo(f, n) == IF n = 0 THEN 0 ELSE SumTo(f, n - 1) + f[n]

\* cosineSimilarity(a, b).  The value is dot / sqrt(sq), kept as the pair
\* (dot, sq) with sq = na * nb; a zero denominator gives the value 0.
cosineSimilarity(a, b) ==
  LET len == Min(Len(a), Len(b))
      dot == SumTo([j \in 1..len |-> a[j] * b[j]], len)
      na  == SumTo([j \in 1..len |-> a[j] * a[j]], len)
      nb  == SumTo([j \in 1..len |-> b[j] * b[j]], len)
  IN  IF na * nb # 0 THEN [dot |-> dot, sq |-> na * nb] ELSE [dot |-> 0, sq |-> 1]

Sign(n) == IF n > 0 THEN 1 ELSE IF n < 0 THEN -1 ELSE 0

\* s < t for two scores dot / sqrt(sq)
ScoreLess(s, t) ==
  IF Sign(s.dot) # Sign(t.dot) THEN Sign(s.dot) < Sign(t.dot)
  ELSE IF Sign(s.dot) = 1 THEN s.dot * s.dot * t.sq < t.dot * t.dot * s.sq
  ELSE IF Sign(s.dot) = -1 THEN s.dot * s.dot * t.sq > t.dot * t.dot * s.sq
  ELSE FALSE

ScoreEq(s, t) == ~ScoreLess(s, t) /\ ~ScoreLess(t, s)

\* the comparator (a, b) => b.score - a.score is negative: a goes before b
Before(a, b) == ScoreLess(b.score, a.score)

RECURSIVE InsertAheadOfTies(_, _)
\* an insertion that puts x in front of the entries it ties with
InsertAheadOfTies(sorted, x) ==
  IF sorted = <<>> THEN <<x>>
  ELSE IF ~Before(Head(sorted), x) THEN <<x>> \o sorted
  ELSE <<Head(sorted)>> \o InsertAheadOfTies(Tail(sorted), x)

RECURSIVE InsertSorted(_, _)
\* x put into sorted behind every entry that does not come after it: what a
\* stable sort does with an element that arrives later in the array
InsertSorted(sorted, x) ==
  IF sorted = <<>> THEN <<x>>
  ELSE IF Before(x, Head(sorted)) THEN <<x>> \o sorted
  ELSE <<Head(sorted)>> \o InsertSorted(Tail(sorted), x)

RECURSIVE SortByScore(_)
\* Array.prototype.sort with the comparator above; the sort is stable
SortByScore(ss) ==
  IF ss = <<>> THEN <<>>
  ELSE InsertSorted(SortByScore(SubSeq(ss, 1, Len(ss) - 1)), ss[Len(ss)])

\* .slice(0, k) for k >= 0
SliceTop(ss, k) == SubSeq(ss, 1, Min(k, Len(ss)))

\* items.map(...).sort(...).slice(0, topK)
Rank(its, q, k) ==
  SliceTop(SortByScore([j \in 1..Len(its) |->
              [item |-> its[j], score |-> cosineSimilarity(q, EmbeddingOf(its[j]))]]), k)

\* `${sourceName}::chunk_${n}`
ChunkId(sourceName, n) == sourceName \o "::chunk_" \o ToString(n)

\* one record of the index
Item(sourceName, n, chunkTxt, embedding) ==
  [id |-> ChunkId(sourceName, n), source |-> sourceName, chunk |-> n,
   text |-> chunkTxt, embedding |-> embedding]

\* the orders in which the chunk numbers 1..n can stand in a stored index
Orders(n) == {f \in [1..n -> 1..n] : \A a, b \in 1..n : f[a] = f[b] => a = b}

RankInit ==
  /\ \E n \in 1..MaxItems : \E ord \in Orders(n) : \E embs \in [1..n -> Vecs] :
     \E missing \in {{}} \cup {{j} : j \in 1..n} :
        items = [j \in 1..n |->
                   JsonItem(Item("doc.pdf", ord[j], <<"a">>,
                                 IF j \in missing THEN Undefined ELSE embs[j]))]
  /\ \E v \in Vecs : \E answered \in BOOLEAN :
        questionEmbedding = IF answered THEN v ELSE Undefined
  /\ topK \in 0..MaxK
  /\ scored = <<>>
  /\ rpc = "rank"
  /\ ChunkIdle
  /\ SysIdle

\* step 3 of answerQuestion: it throws where cosineSimilarity reads the
\* length of something that has none, and ranks otherwise
RankStep ==
  /\ rpc = "rank"
  /\ IF NoLength(items, questionEmbedding)
     THEN scored' = scored /\ rpc' = "threw"
     ELSE scored' = Rank(items, questionEmbedding, topK) /\ rpc' = "done"
  /\ UNCHANGED <<items, questionEmbedding, topK, chunkVars, sysVars>>

SpecRank == RankInit /\ [][RankStep]_vars

\* ------------------------------------------------ claims on the ranking
\* position of a record in the stored items
PosOf(it) == CHOOSE j \in 1..Len(items) : items[j].id = it.id

Ranked == rpc = "done"

ScoreOf(it) == cosineSimilarity(questionEmbedding, EmbeddingOf(it))

\* the result holds min(k, N) matches, each a stored record with its score,
\* no record twice
RankedShape ==
  /\ Len(scored) = Min(topK, Len(items))
  /\ \A a \in 1..Len(scored) :
        /\ \E j \in 1..Len(items) : scored[a].item = items[j]
        /\ scored[a].score = ScoreOf(scored[a].item)
  /\ \A a, b \in 1..Len(scored) : scored[a].item.id = scored[b].item.id => a = b

RankedDescending ==
  \A a, b \in 1..Len(scored) : a < b => ~ScoreLess(scored[a].score, scored[b].score)

\* the records left out score no higher than any record returned
RankedTop ==
  \A a \in 1..Len(scored) : \A j \in 1..Len(items) :
     (\A b \in 1..Len(scored) : scored[b].item.id # items[j].id)
        => ~ScoreLess(scored[a].score, ScoreOf(items[j]))

\* ties, among the returned and against the records left out, go by key
TiesOrderedBy(key(_)) ==
  /\ \A a, b \in 1..Len(scored) :
        (a < b /\ ScoreEq(scored[a].score, scored[b].score))
           => key(scored[a].item) < key(scored[b].item)
  /\ \A a \in 1..Len(scored) : \A j \in 1..Len(items) :
        ((\A b \in 1..Len(scored) : scored[b].item.id # items[j].id)
            /\ ScoreEq(scored[a].score, ScoreOf(items[j])))
           => key(scored[a].item) < key(items[j])

ChunkOf(it) == it.chunk

StoredAscending == \A j \in 1..Len(items) : items[j].chunk = j

\* C2 as stated: min(k, N) matches in descending score order, ties by
\* ascending chunk number, whatever the order of the stored items.
C2_TiesByChunkNumber ==
  Ranked => RankedShape /\ RankedDescending /\ RankedTop /\ TiesOrderedBy(ChunkOf)

\* C2 amended: min(k, N) matches in descending score order, ties in the order
\* of the stored items; that is ascending chunk number when the items are
\* stored in ascending chunk order, as indexPdfToJson writes them.
C2_TiesByStoredOrder ==
  Ranked =>
     /\ RankedShape /\ RankedDescending /\ RankedTop
     /\ TiesOrderedBy(PosOf)
     /\ (StoredAscending => TiesOrderedBy(ChunkOf))

\* a ranking that cut a tie: two stored records score the same, the earlier
\* one is returned last and the later one is left out
C2_Witness ==
  /\ Ranked /\ 0 < topK /\ topK < Len(items)
  /\ \E j \in 1..Len(items) :
        /\ PosOf(scored[topK].item) < j
        /\ ScoreEq(scored[topK].score, ScoreOf(items[j]))
        /\ \A b \in 1..Len(scored) : scored[b].item.id # items[j].id
  /\ \E a \in 1..Len(scored) : ScoreLess(scored[topK].score, scored[a].score)

\* the query embedding or the embedding of some stored record is missing
MissingEmbedding ==
  \/ questionEmbedding = Undefined
  \/ \E j \in 1..Len(items) : "embedding" \notin DOMAIN items[j]

\* some stored vector has no component in common with the query vector
NoSharedDimension ==
  \E j \in 1..Len(items) : Min(Len(questionEmbedding), Len(items[j].embedding)) = 0

RECURSIVE DotProduct(_, _)
\* the dot product of two vectors of the same length
DotProduct(a, b) ==
  IF a = <<>> THEN 0 ELSE Head(a) * Head(b) + DotProduct(Tail(a), Tail(b))

\* the similarity of the first min(len(a), len(b)) components of a and b,
\* 0 when the denominator is 0
PrefixSimilarity(a, b) ==
  LET m  == IF Len(a) <= Len(b) THEN Len(a) ELSE Len(b)
      pa == SubSeq(a, 1, m)
      pb == SubSeq(b, 1, m)
      sq == DotProduct(pa, pa) * DotProduct(pb, pb)
  IN  IF sq = 0 THEN [dot |-> 0, sq |-> 1] ELSE [dot |-> DotProduct(pa, pb), sq |-> sq]

\* every returned score is the similarity over the shared leading components
ScoresOverSharedPrefix ==
  \A a \in 1..Len(scored) :
     scored[a].score = PrefixSimilarity(questionEmbedding, scored[a].item.embedding)

\* C11 as stated: with vectors on both sides, ranking fails exactly when some
\* stored vector shares no dimension with the query vector (the shorter length
\* is 0); otherwise it computes every similarity over the first
\* min(len(query), len(record)) components and raises nothing.
C11_FailsIffNoSharedDimension ==
  (rpc # "rank" /\ ~MissingEmbedding) =>
     /\ (rpc = "threw") <=> NoSharedDimension
     /\ (rpc = "done") => ScoresOverSharedPrefix

\* C11 amended: ranking raises no dimension-mismatch error.  With vectors of
\* any lengths on both sides it finishes, every similarity is computed over the
\* first min(len(query), len(record)) components and is 0 when that minimum is
\* 0; it fails only when the query embedding or some record's embedding is
\* missing.
C11_NoDimensionError ==
  rpc # "rank" =>
     /\ (rpc = "threw") <=> MissingEmbedding
     /\ (rpc = "done") =>
           /\ ScoresOverSharedPrefix
           /\ \A a \in 1..Len(scored) :
                 Min(Len(questionEmbedding), Len(scored[a].item.embedding)) = 0
                    => scored[a].score.dot = 0

\* a finished ranking over a record that shares no dimension with the query
\* and a record longer than the query that scores on the shared prefix
C11_Witness ==
  /\ rpc = "done" /\ NoSharedDimension
  /\ \E a, b \in 1..Len(scored) :
        /\ Len(scored[a].item.embedding) = 0
        /\ Len(scored[b].item.embedding) > Len(questionEmbedding)
        /\ scored[b].score.dot # 0

\* ------------------------------------------------------------ the server
\* the route's chunkSize: 1200 and chunkOverlap: 200, scaled down so that a
\* text of three characters spans two chunks; as in the route, the overlap is
\* smaller than the chunk size
ChunkSize == 2
ChunkOverlap == 1
\* the route's topK
TopK == 5
\* process.env.EMBED_MODEL || 'nomic-embed-text'
EmbedModel == "nomic-embed-text"

\* the uploads tried: file name and the text pdf-parse extracts from it
Uploads ==
  { [name |-> "blank.pdf", text |-> <<" ", "\n">>],
    [name |-> "a.pdf",     text |-> <<"a">>],
    [name |-> "abc.pdf",   text |-> <<"a", "b", "c">>] }

\* the questions asked (after the route's trim)
Questions == { <<"b">> }

\* how often character c occurs in s
Count(s, c) == Len(SelectSeq(s, LAMBDA x : x = c))

\* the vector the embedding model has for a prompt: one per prompt, and
\* different prompts may differ
EmbeddingFor(prompt) == <<Count(prompt, "a"), Count(prompt, "b")>>

\* the JSON bodies Ollama's /api/embeddings may answer a prompt with
EmbedReplies(prompt) ==
  { [embedding |-> EmbeddingFor(prompt)], [error |-> "model not found"] }

\* the JSON bodies Ollama's /api/chat may answer with
ChatReplies == { [message |-> [content |-> " ok "]], [error |-> "model not found"] }

\* ollamaEmbeddings: return data.embedding
ollamaEmbeddings(data) == IF "embedding" \in DOMAIN data THEN data.embedding ELSE Undefined

\* ollamaChat: data?.message?.content, a string or not
ChatContent(data) ==
  IF "message" \in DOMAIN data /\ "content" \in DOMAIN data.message
  THEN data.message.content ELSE Undefined

\* content.trim() of the replies above
ChatAnswer(content) == IF content = " ok " THEN "ok" ELSE content

\* error messages, as res.status(500).json({ error: e.message }) sends them
MsgNoIndex    == "Index introuvable. Fais d'abord l'indexation du PDF."
MsgEmptyIndex == "Index vide."
MsgBadChat    == "Reponse Ollama chat invalide"
MsgFetch      == "fetch failed"
MsgBadJson    == "Unexpected end of JSON input"
MsgNoLength   == "Cannot read properties of undefined (reading 'length')"
MsgBadPdf     == "Invalid PDF structure"
MsgNoUpload   == "Aucun fichier PDF uploade"
MsgNoQuestion == "Question vide"

Failure(op, status, msg) == [op |-> op, status |-> status, body |-> [error |-> msg]]

\* history, kept with an ask and its response: whether some indexing request
\* had been answered 200 when the ask read the index file
Since(resp, before) == resp @@ [indexedBefore |-> before]

\* an index record with a chunk number one too small
IndexItemFromZero(sourceName, idx, chunkTxt, embedding) ==
  Item(sourceName, idx, chunkTxt, embedding)

\* the record pushed for chunks[idx] (idx counts from 0)
IndexItem(sourceName, idx, chunkTxt, embedding) ==
  Item(sourceName, idx + 1, chunkTxt, embedding)

\* const payload (createdAt left out: the model has no clock)
Payload(sourceName, its) ==
  [source |-> sourceName, embedModel |-> EmbedModel, chunkSize |-> ChunkSize,
   chunkOverlap |-> ChunkOverlap, count |-> Len(its), items |-> its]

\* JSON.stringify(payload, null, 2), as the parsed value of the bytes
Stringify(payload) ==
  [payload EXCEPT !.items = [j \in 1..Len(payload.items) |-> JsonItem(payload.items[j])]]

\* the file after fs.writeFileSync ran to its end
Written(payload) == [state |-> "written", db |-> Stringify(payload)]

\* the file when the process died inside fs.writeFileSync: opened with flag
\* 'w', so cut to nothing, then some prefix of the bytes written
Truncated == [state |-> "truncated"]

RECURSIVE RoundBetween(_, _, _)
\* the largest n in lo..hi with n - 1/2 <= 10000 * |dot| / sqrt(sq), by bisection
RoundBetween(lo, hi, score) ==
  IF lo = hi THEN lo
  ELSE LET mid == (lo + hi + 1) \div 2
       IN  IF (2 * mid - 1) * (2 * mid - 1) * score.sq
                 <= 4 * 100000000 * score.dot * score.dot
           THEN RoundBetween(mid, hi, score)
           ELSE RoundBetween(lo, mid - 1, score)

\* Number(score.toFixed(4)), in units of 1/10000
Fixed4(score) ==
  IF score.dot = 0 THEN 0 ELSE Sign(score.dot) * RoundBetween(0, 10000, score)

SysInit ==
  /\ file = NoFile
  /\ req = [p \in Reqs |-> Idle]
  /\ lastResp = NoResp
  /\ everIndexed = FALSE
  /\ ChunkIdle
  /\ RankIdle

Respond(p, resp) ==
  /\ req' = [req EXCEPT ![p] = Idle]
  /\ lastResp' = resp

\* a write that keeps the records already stored in front of the new ones
WriteIndexAppending(p, sourceName, its, outcome) ==
  /\ file' = [state |-> "written",
              db |-> [Stringify(Payload(sourceName, its)) EXCEPT
                        !.items = (IF file.state = "written" THEN file.db.items ELSE <<>>) \o @]]
  /\ Respond(p, [op |-> "index", status |-> 200,
                 body |-> [ok |-> TRUE, indexPath |-> "data/index.json",
                           stats |-> [chunks |-> Len(its), embedModel |-> EmbedModel,
                                      source |-> sourceName]]])
  /\ everIndexed' = TRUE

\* steps 4 and 5 of indexPdfToJson and the route's res.json; outcome "killed"
\* is the process dying inside fs.writeFileSync, which ends every request
WriteIndex(p, sourceName, its, outcome) ==
  IF outcome = "written"
  THEN /\ file' = Written(Payload(sourceName, its))
       /\ Respond(p, [op |-> "index", status |-> 200,
                      body |-> [ok |-> TRUE, indexPath |-> "data/index.json",
                                stats |-> [chunks |-> Len(its), embedModel |-> EmbedModel,
                                           source |-> sourceName]]])
       /\ everIndexed' = TRUE
  ELSE /\ file' = Truncated
       /\ req' = [q \in Reqs |-> Idle]
       /\ lastResp' = NoResp
       /\ UNCHANGED everIndexed

\* POST /api/index without a file
IndexNoUpload(p) ==
  /\ req[p].pc = "idle"
  /\ Respond(p, Failure("index", 400, MsgNoUpload))
  /\ UNCHANGED <<file, everIndexed, chunkVars, rankVars>>

\* POST /api/index with a file: the handler runs up to await parser.getText()
IndexStart(p) ==
  /\ req[p].pc = "idle"
  /\ \E up \in Uploads :
        req' = [req EXCEPT ![p] = [pc |-> "parse", sourceName |-> up.name, pdf |-> up.text]]
  /\ UNCHANGED <<file, lastResp, everIndexed, chunkVars, rankVars>>

\* parser.getText() rejects
IndexParseFails(p) ==
  /\ req[p].pc = "parse"
  /\ Respond(p, Failure("index", 500, MsgBadPdf))
  /\ UNCHANGED <<file, everIndexed, chunkVars, rankVars>>

\* parser.getText() resolves: chunkText, then the first embedding request, or,
\* with no chunk, straight on to the write
IndexParsed(p) ==
  /\ req[p].pc = "parse"
  /\ LET cs == chunkText(req[p].pdf, ChunkSize, ChunkOverlap)
     IN  IF cs = <<>>
         THEN \E outcome \in {"written", "killed"} :
                 WriteIndex(p, req[p].sourceName, <<>>, outcome)
         ELSE /\ req' = [req EXCEPT ![p] =
                          [pc |-> "embed", sourceName |-> req[p].sourceName,
                           chunks |-> cs, items |-> <<>>]]
              /\ UNCHANGED <<file, lastResp, everIndexed>>
  /\ UNCHANGED <<chunkVars, rankVars>>

\* fetch or response.json() of the embedding request rejects
IndexEmbedFails(p) ==
  /\ req[p].pc = "embed"
  /\ Respond(p, Failure("index", 500, MsgFetch))
  /\ UNCHANGED <<file, everIndexed, chunkVars, rankVars>>

\* the embedding request of chunks[i] is answered: push the record, then the
\* next request or, after the last chunk, the write
IndexEmbedded(p) ==
  /\ req[p].pc = "embed"
  /\ \E data \in EmbedReplies(req[p].chunks[Len(req[p].items) + 1]) :
        LET idx == Len(req[p].items)
            its == Append(req[p].items,
                          IndexItem(req[p].sourceName, idx, req[p].chunks[idx + 1],
                                    ollamaEmbeddings(data)))
        IN  IF Len(its) < Len(req[p].chunks)
            THEN /\ req' = [req EXCEPT ![p].items = its]
                 /\ UNCHANGED <<file, lastResp, everIndexed>>
            ELSE \E outcome \in {"written", "killed"} :
                    WriteIndex(p, req[p].sourceName, its, outcome)
  /\ UNCHANGED <<chunkVars, rankVars>>

\* POST /api/ask with an empty question
AskNoQuestion(p) ==
  /\ req[p].pc = "idle"
  /\ Respond(p, Failure("ask", 400, MsgNoQuestion))
  /\ UNCHANGED <<file, everIndexed, chunkVars, rankVars>>

\* a step 1 that lets an index without records through
LoadErrorUnlessEmpty(f) ==
  IF f.state = "absent" THEN MsgNoIndex
  ELSE IF f.state = "truncated" THEN MsgBadJson
  ELSE ""

\* what answerQuestion's step 1 throws, or "" when it loads the items
LoadError(f) ==
  IF f.state = "absent" THEN MsgNoIndex
  ELSE IF f.state = "truncated" THEN MsgBadJson
  ELSE IF Len(f.db.items) = 0 THEN MsgEmptyIndex
  ELSE ""

\* POST /api/ask: step 1 of answerQuestion, up to the await of the question's
\* embedding
AskStart(p) ==
  /\ req[p].pc = "idle"
  /\ IF LoadError(file) # ""
     THEN Respond(p, Since(Failure("ask", 500, LoadError(file)), everIndexed))
     ELSE /\ \E question \in Questions :
                req' = [req EXCEPT ![p] = [pc |-> "question", question |-> question,
                                           items |-> file.db.items,
                                           indexedBefore |-> everIndexed]]
          /\ UNCHANGED lastResp
  /\ UNCHANGED <<file, everIndexed, chunkVars, rankVars>>

\* an ask that removes the index file when the embedding service fails
AskEmbedFailsDropsIndex(p) ==
  /\ req[p].pc = "question"
  /\ Respond(p, Since(Failure("ask", 500, MsgFetch), req[p].indexedBefore))
  /\ file' = NoFile
  /\ UNCHANGED <<everIndexed, chunkVars, rankVars>>

\* fetch or response.json() of the question's embedding request rejects
AskEmbedFails(p) ==
  /\ req[p].pc = "question"
  /\ Respond(p, Since(Failure("ask", 500, MsgFetch), req[p].indexedBefore))
  /\ UNCHANGED <<file, everIndexed, chunkVars, rankVars>>

\* the question's embedding arrives: steps 3 to 6, up to the await of the chat
AskEmbedded(p) ==
  /\ req[p].pc = "question"
  /\ \E data \in EmbedReplies(req[p].question) :
        LET q == ollamaEmbeddings(data)
        IN  IF NoLength(req[p].items, q)
            THEN Respond(p, Since(Failure("ask", 500, MsgNoLength), req[p].indexedBefore))
            ELSE /\ req' = [req EXCEPT ![p] =
                             [pc |-> "chat", scored |-> Rank(req[p].items, q, TopK),
                              indexedBefore |-> req[p].indexedBefore]]
                 /\ UNCHANGED lastResp
  /\ UNCHANGED <<file, everIndexed, chunkVars, rankVars>>

\* fetch or response.json() of the chat request rejects
AskChatFails(p) ==
  /\ req[p].pc = "chat"
  /\ Respond(p, Since(Failure("ask", 500, MsgFetch), req[p].indexedBefore))
  /\ UNCHANGED <<file, everIndexed, chunkVars, rankVars>>

\* the chat request is answered: step 8 and the route's res.json
AskChatted(p) ==
  /\ req[p].pc = "chat"
  /\ \E data \in ChatReplies :
        IF ChatContent(data) = Undefined
        THEN Respond(p, Since(Failure("ask", 500, MsgBadChat), req[p].indexedBefore))
        ELSE Respond(p, [op |-> "ask", status |-> 200,
                         indexedBefore |-> req[p].indexedBefore,
                         body |-> [ok |-> TRUE, answer |-> ChatAnswer(ChatContent(data)),
                                   sources |-> [j \in 1..Len(req[p].scored) |->
                                      [id |-> req[p].scored[j].item.id,
                                       score |-> Fixed4(req[p].scored[j].score)]]]])
  /\ UNCHANGED <<file, everIndexed, chunkVars, rankVars>>

Next ==
  \E p \in Reqs :
     \/ IndexNoUpload(p)
     \/ IndexStart(p)
     \/ IndexParseFails(p)
     \/ IndexParsed(p)
     \/ IndexEmbedFails(p)
     \/ IndexEmbedded(p)
     \/ AskNoQuestion(p)
     \/ AskStart(p)
     \/ AskEmbedFails(p)
     \/ AskEmbedded(p)
     \/ AskChatFails(p)
     \/ AskChatted(p)

Spec == SysInit /\ [][Next]_vars

\* ------------------------------------------------- claims on the server
Indexing(p) == req[p].pc \in {"parse", "embed"}

\* a complete index is stored
Stored == file.state = "written"

\* the last response answers an indexing request with success
IndexedOk == lastResp.op = "index" /\ lastResp.status = 200

\* C3: an indexing operation whose text yields no chunk fails and writes
\* nothing; an index with zero records is never stored.
C3_NoEmptyIndex ==
  /\ Stored => Len(file.db.items) > 0
  /\ IndexedOk => lastResp.body.stats.chunks > 0

IsVector(v) == v # Undefined /\ \A j \in 1..Len(v) : v[j] \in Int

\* C4: an embedding reply without a numeric vector aborts the indexing
\* operation; every stored record carries a numeric vector.
C4_EveryRecordHasVector ==
  Stored => \A j \in 1..Len(file.db.items) : IsVector(EmbeddingOf(file.db.items[j]))

\* C5: an ask that reads the index location before any indexing request has
\* succeeded is answered with the index-not-found error, which is none of the
\* other errors an ask can end with.
C5_NotFoundBeforeFirstIndex ==
  /\ MsgNoIndex \notin {MsgEmptyIndex, MsgBadJson, MsgFetch, MsgNoLength, MsgBadChat}
  /\ (lastResp.op = "ask" /\ lastResp.status # 400 /\ ~lastResp.indexedBefore)
        => (lastResp.status = 500 /\ lastResp.body.error = MsgNoIndex)

AtMostOneIndexing == \A p, q \in Reqs : (Indexing(p) /\ Indexing(q)) => p = q

\* C6: at most one indexing operation is in progress at any time, and no ask
\* reads the index location while one is.
C6_IndexingSerialized ==
  [][ /\ AtMostOneIndexing'
      /\ \A p \in Reqs : AskStart(p) => \A q \in Reqs : ~Indexing(q) ]_vars

\* C7: the index location holds nothing, or a complete index, never a partly
\* written one, a crash during the write included.
C7_WriteAtomic == file.state \in {"absent", "written"}

\* C10: in a stored index count is the number of items, the i-th item has
\* chunk i, id "<source>::chunk_<i>" and the index's source, and the ids are
\* pairwise distinct.
C10_StoredShape ==
  Stored =>
     LET db == file.db
     IN  /\ db.count = Len(db.items)
         /\ \A j \in 1..Len(db.items) :
               /\ db.items[j].chunk = j
               /\ db.items[j].id = db.source \o "::chunk_" \o ToString(j)
               /\ db.items[j].source = db.source
         /\ \A j, k \in 1..Len(db.items) : db.items[j].id = db.items[k].id => j = k

\* a stored index of two records
C10_Witness == Stored /\ Len(file.db.items) = 2 /\ IndexedOk

\* the stored index is malformed: cut off, or some record's embedding is not
\* a vector of numbers
Malformed(f) ==
  \/ f.state = "truncated"
  \/ /\ f.state = "written"
     /\ \E j \in 1..Len(f.db.items) : ~IsVector(EmbeddingOf(f.db.items[j]))

\* the response is the error answerQuestion ends with when JSON.parse rejects
\* the index file
CorruptIndexError(resp) ==
  resp.op = "ask" /\ resp.status = 500 /\ resp.body.error = MsgBadJson

\* C12: an ask that loads a malformed index fails at once with the
\* corrupt-index error; it is not answered 'Index vide.' and it does not go on
\* to the embedding request and the ranking with the malformed records.
C12_MalformedIndexRejected ==
  [][ \A p \in Reqs :
        (AskStart(p) /\ Malformed(file)) =>
           /\ req'[p].pc = "idle"
           /\ CorruptIndexError(lastResp')
           /\ lastResp'.body.error # MsgEmptyIndex ]_vars

\* db is what one indexing operation on the upload up writes: its metadata,
\* and one record per chunk of up's text, in the order of the chunks
WrittenByOne(db, up) ==
  LET cs == chunkText(up.text, ChunkSize, ChunkOverlap)
  IN  /\ db.source = up.name /\ db.embedModel = EmbedModel
      /\ db.chunkSize = ChunkSize /\ db.chunkOverlap = ChunkOverlap
      /\ db.count = Len(cs) /\ Len(db.items) = Len(cs)
      /\ \A j \in 1..Len(cs) :
            /\ db.items[j].source = up.name
            /\ db.items[j].chunk = j
            /\ db.items[j].id = ChunkId(up.name, j)
            /\ db.items[j].text = cs[j]
            /\ "embedding" \in DOMAIN db.items[j]
                  => db.items[j].embedding = EmbeddingFor(cs[j])

\* C13: whatever indexing requests ran and however they interleaved, a stored
\* index is the metadata and the records of one single indexing operation, in
\* the order of its chunks; nothing of an index stored before is left in it.
C13_OneOperationStored ==
  Stored => \E up \in Uploads : WrittenByOne(file.db, up)

\* the index of a.pdf stored over the two records of abc.pdf, which an ask
\* that read the file before the second write still holds
C13_Witness ==
  /\ Stored /\ file.db.source = "a.pdf" /\ Len(file.db.items) = 1
  /\ \E p \in Reqs :
        /\ req[p].pc = "question"
        /\ Len(req[p].items) = 2 /\ req[p].items[1].source = "abc.pdf"

\* the request waits for the answer of the embedding service to its question
AwaitsEmbedding(r) == r.pc = "question"

\* the request waits for the answer of the completion service
AwaitsCompletion(r) == r.pc = "chat"

\* loading fails: no index file, or an index without records
LoadFails(f) == f.state = "absent" \/ (f.state = "written" /\ Len(f.db.items) = 0)

\* C14: an ask calls the embedding service only after it loaded the records
\* of the index, calls the completion service only after the question's
\* embedding came back and the records were ranked, and returns its answer
\* only after the completion came back; an ask whose loading fails (no index,
\* or no records) calls neither service and ends with an error.
C14_StepsInOrder ==
  [][ \A p \in Reqs :
        /\ (AwaitsEmbedding(req'[p]) /\ ~AwaitsEmbedding(req[p])) =>
              /\ req[p].pc = "idle"
              /\ file.state = "written" /\ Len(file.db.items) > 0
              /\ req'[p].items = file.db.items
        /\ (AwaitsCompletion(req'[p]) /\ ~AwaitsCompletion(req[p])) =>
              /\ AwaitsEmbedding(req[p])
              /\ Len(req'[p].scored) = Min(TopK, Len(req[p].items))
              /\ \A a \in 1..Len(req'[p].scored) :
                    \E j \in 1..Len(req[p].items) :
                       req'[p].scored[a].item = req[p].items[j]
        /\ (req[p].pc # "idle" /\ req'[p].pc = "idle"
               /\ lastResp'.op = "ask" /\ lastResp'.status = 200) =>
              AwaitsCompletion(req[p])
        /\ (req[p].pc = "idle" /\ LoadFails(file)) =>
              /\ ~AwaitsEmbedding(req'[p]) /\ ~AwaitsCompletion(req'[p])
              /\ (AskStart(p) =>
                    (req'[p].pc = "idle" /\ lastResp'.op = "ask" /\ lastResp'.status = 500))
    ]_vars

\* an ask went through every step and returned an answer with two sources,
\* while another ask waits for the embedding of its question
C14_Witness ==
  /\ lastResp.op = "ask" /\ lastResp.status = 200
  /\ Len(lastResp.body.sources) = 2
  /\ \E p \in Reqs : AwaitsEmbedding(req[p])

\* request p takes a step of POST /api/ask
AskStep(p) ==
  \/ AskNoQuestion(p) \/ AskStart(p)
  \/ AskEmbedFails(p) \/ AskEmbedded(p)
  \/ AskChatFails(p) \/ AskChatted(p)

====
